---- MODULE Spec2Model ----
(***************************************************************************)
(* A model of algosdk/algod.py: the AlgodClient REST client.               *)
(*                                                                         *)
(* Strings that the code takes apart or puts together are sequences of     *)
(* tokens.  A URL is a sequence of strings (the address, the path pieces,   *)
(* "?", key, "=", value, "&", ...).  A body text is a sequence of text     *)
(* tokens: T(s) is the characters s, Q(s) is the JSON string literal "s"   *)
(* with its quotes.  Bytes are sequences of 0..255, base64 text is a       *)
(* sequence of one-character strings.  An optional Python value is a       *)
(* sequence of length 0 (None) or 1.                                       *)
(***************************************************************************)
EXTENDS Integers, Sequences, FiniteSets, TLC

VARIABLES
    algod_token,      \* self.algod_token
    algod_address,    \* self.algod_address
    extended_header,  \* self.extended_header (None or a dict)
    op,               \* the public method last called ("none" before any)
    args,             \* its arguments
    frame,            \* the arguments algod_request was entered with
    net,              \* what the HTTP layer did with the request
    sent,             \* the requests handed to urlopen during the call
    outcome           \* how the call ended: a returned value or an exception

vars == <<algod_token, algod_address, extended_header, op, args, frame, net,
          sent, outcome>>

----------------------------------------------------------------------------
(* Bounds of the model.                                                    *)

MaxRound == 1   \* block numbers and rounds are 0..MaxRound
MaxTxns  == 1   \* max_txns and limit are 0..MaxTxns
MaxBytes == 2   \* transactions are at most MaxBytes bytes long

----------------------------------------------------------------------------
(* Python values.                                                          *)

None == <<>>
Some(x) == <<x>>
IsNone(o) == Len(o) = 0

PyInt(n) == [t |-> "int", n |-> n, s |-> ""]
PyStr(s) == [t |-> "str", n |-> 0, s |-> s]

\* Truth value of a Python argument that is None or a dict / sequence.
Truthy(o) == ~IsNone(o) /\ o[1] # <<>>

\* dict.update on dicts as functions.
Update(d, e) ==
    [k \in (DOMAIN d) \cup (DOMAIN e) |-> IF k \in DOMAIN e THEN e[k] ELSE d[k]]

Digits == <<"0", "1", "2", "3", "4", "5", "6", "7", "8", "9">>

\* str(n) of a natural number.
RECURSIVE str_int(_)
str_int(n) ==
    IF n < 10 THEN Digits[n + 1]
    ELSE str_int(n \div 10) \o Digits[(n % 10) + 1]

\* str(v) of a parameter value.
str(v) == IF v.t = "int" THEN str_int(v.n) ELSE v.s

\* parse.quote_plus on the strings of the model: a space becomes "+",
\* digits, letters and "-" stay.
quote_plus(s) ==
    CASE s = "2019-01-01 00" -> "2019-01-01+00"
      [] OTHER -> s

\* parse.urlencode(params): key=value pairs in the dict's order, joined "&".
RECURSIVE urlencode(_)
urlencode(params) ==
    IF params = <<>> THEN <<>>
    ELSE LET p == params[1]
             pair == <<quote_plus(p.key), "=", quote_plus(str(p.val))>>
         IN IF Len(params) = 1 THEN pair
            ELSE pair \o <<"&">> \o urlencode(Tail(params))

----------------------------------------------------------------------------
(* constants.py                                                            *)

algod_auth_header == "X-Algo-API-Token"
api_version_path_prefix == "/v1"
no_auth == {<<"/health">>}
unversioned_paths == {<<"/health">>, <<"/versions">>}

----------------------------------------------------------------------------
(* JSON texts and json.loads.                                              *)

T(s) == [q |-> FALSE, s |-> s]
Q(s) == [q |-> TRUE, s |-> s]

JNull == [kind |-> "null", s |-> "", obj |-> <<>>]
JStr(s) == [kind |-> "str", s |-> s, obj |-> <<>>]
JObj(f) == [kind |-> "obj", s |-> "", obj |-> f]

ParseFail == [ok |-> FALSE, value |-> JNull]
ParseOk(v) == [ok |-> TRUE, value |-> v]

\* The members of an object, from token i on: "key" : "value" , ... }
RECURSIVE parse_members(_, _, _)
parse_members(toks, i, acc) ==
    IF i + 3 > Len(toks) THEN ParseFail
    ELSE IF ~(toks[i].q /\ toks[i + 1] = T(":") /\ toks[i + 2].q) THEN ParseFail
    ELSE LET acc2 == Update(acc, toks[i].s :> toks[i + 2].s)
         IN IF toks[i + 3] = T("}")
            THEN IF i + 3 = Len(toks) THEN ParseOk(JObj(acc2)) ELSE ParseFail
            ELSE IF toks[i + 3] = T(",")
                 THEN parse_members(toks, i + 4, acc2)
                 ELSE ParseFail

\* json.loads on a text: null, a string literal, or an object whose values
\* are string literals; anything else is a JSONDecodeError.
json_loads(text) ==
    IF text = <<T("null")>> THEN ParseOk(JNull)
    ELSE IF Len(text) = 1 /\ text[1].q THEN ParseOk(JStr(text[1].s))
    ELSE IF text = <<T("{"), T("}")>> THEN ParseOk(JObj(<<>>))
    ELSE IF Len(text) >= 2 /\ text[1] = T("{") THEN parse_members(text, 2, <<>>)
    ELSE ParseFail

\* How a call ends.
Returned(v) == [kind |-> "return", value |-> v, text |-> <<>>]
Raised(k, text) == [kind |-> k, value |-> JNull, text |-> text]

\* value[key] on a decoded JSON value.
getitem(v, key) ==
    IF v.kind # "obj" THEN Raised("TypeError", <<>>)
    ELSE IF key \notin DOMAIN v.obj THEN Raised("KeyError", <<T(key)>>)
    ELSE Returned(JStr(v.obj[key]))

\* str(v) of a decoded JSON string, as a text.
text_of(v) == <<T(v.s)>>

----------------------------------------------------------------------------
(* base64                                                                  *)

B64Alphabet ==
    <<"A", "B", "C", "D", "E", "F", "G", "H", "I", "J", "K", "L", "M",
      "N", "O", "P", "Q", "R", "S", "T", "U", "V", "W", "X", "Y", "Z",
      "a", "b", "c", "d", "e", "f", "g", "h", "i", "j", "k", "l", "m",
      "n", "o", "p", "q", "r", "s", "t", "u", "v", "w", "x", "y", "z",
      "0", "1", "2", "3", "4", "5", "6", "7", "8", "9", "+", "/">>

B64Val(c) == (CHOOSE i \in 1..64 : B64Alphabet[i] = c) - 1
B64Chr(n) == B64Alphabet[n + 1]

\* One group of four characters gives three bytes, fewer where "=" pads.
b64decode_group(g) ==
    LET n1 == B64Val(g[1])
        n2 == B64Val(g[2])
        b1 == n1 * 4 + (n2 \div 16)
    IN IF g[3] = "=" THEN <<b1>>
       ELSE LET n3 == B64Val(g[3])
                b2 == (n2 % 16) * 16 + (n3 \div 4)
            IN IF g[4] = "=" THEN <<b1, b2>>
               ELSE <<b1, b2, (n3 % 4) * 64 + B64Val(g[4])>>

\* base64.b64decode on well-formed base64 text.
RECURSIVE b64decode(_)
b64decode(s) ==
    IF Len(s) < 4 THEN <<>>
    ELSE b64decode_group(SubSeq(s, 1, 4)) \o b64decode(SubSeq(s, 5, Len(s)))

\* base64.b64encode, which encoding.msgpack_encode ends with.
RECURSIVE b64encode(_)
b64encode(b) ==
    IF Len(b) = 0 THEN <<>>
    ELSE IF Len(b) = 1
    THEN <<B64Chr(b[1] \div 4), B64Chr((b[1] % 4) * 16), "=", "=">>
    ELSE IF Len(b) = 2
    THEN <<B64Chr(b[1] \div 4), B64Chr((b[1] % 4) * 16 + (b[2] \div 16)),
           B64Chr((b[2] % 16) * 4), "=">>
    ELSE <<B64Chr(b[1] \div 4), B64Chr((b[1] % 4) * 16 + (b[2] \div 16)),
           B64Chr((b[2] % 16) * 4 + (b[3] \div 64)), B64Chr(b[3] % 64)>>
         \o b64encode(SubSeq(b, 4, Len(b)))

\* The canonical binary encoding of a signed transaction object: the object
\* is the record of its field bytes and the encoding lists them.
canonical_bytes(txn) == txn.fields

\* encoding.msgpack_encode(txn): the canonical encoding, in base64.
msgpack_encode(txn) == b64encode(canonical_bytes(txn))

----------------------------------------------------------------------------
(* AlgodClient.algod_request                                               *)

\* header_of with the allow-list test left out: the auth header goes on every
\* request.
header_of_auth_always(self, requrl, opt_header) ==
    LET h1 == IF Truthy(self.extended_header)
              THEN self.extended_header[1] ELSE <<>>
        h2 == IF Truthy(opt_header) THEN Update(h1, opt_header[1]) ELSE h1
    IN Update(h2, algod_auth_header :> self.algod_token)

\* header_of with the two maps layered the other way round: the configured
\* headers go over the per-call ones.
header_of_opt_first(self, requrl, opt_header) ==
    LET h1 == IF Truthy(opt_header) THEN opt_header[1] ELSE <<>>
        h2 == IF Truthy(self.extended_header)
              THEN Update(h1, self.extended_header[1]) ELSE h1
    IN IF requrl \notin no_auth
       THEN Update(h2, algod_auth_header :> self.algod_token)
       ELSE h2

\* The header dict of lines 44-55: a fresh dict, the configured headers,
\* the per-call headers over them, the auth header last.
header_of(self, requrl, opt_header) ==
    LET h0 == <<>>
        h1 == IF Truthy(self.extended_header)
              THEN Update(h0, self.extended_header[1]) ELSE h0
        h2 == IF Truthy(opt_header) THEN Update(h1, opt_header[1]) ELSE h1
    IN IF requrl \notin no_auth
       THEN Update(h2, algod_auth_header :> self.algod_token)
       ELSE h2

\* extended_header_after had line 44 been `header = self.extended_header or
\* {}`: the updates then go into the attribute itself.
extended_header_after_aliased(self, requrl, opt_header) ==
    IF ~Truthy(self.extended_header) THEN self.extended_header
    ELSE LET h2 == IF Truthy(opt_header)
                   THEN Update(self.extended_header[1], opt_header[1])
                   ELSE self.extended_header[1]
         IN Some(IF requrl \notin no_auth
                 THEN Update(h2, algod_auth_header :> self.algod_token)
                 ELSE h2)

\* self.extended_header once the header dict is built: `header` is a dict of
\* its own, so the updates of lines 47-55 leave the attribute as it was.
extended_header_after(self, requrl, opt_header) == self.extended_header

\* url_of with lines 57-58 and 59-60 the other way round: the allow-list is
\* asked about the path with its query string.
url_of_late_membership(self, requrl, params) ==
    LET full == IF Truthy(params)
                THEN requrl \o <<"?">> \o urlencode(params[1])
                ELSE requrl
        versioned == IF full \notin unversioned_paths
                     THEN <<api_version_path_prefix>> \o full
                     ELSE full
    IN <<self.algod_address>> \o versioned

\* The URL of lines 57-62.
url_of(self, requrl, params) ==
    LET versioned == IF requrl \notin unversioned_paths
                     THEN <<api_version_path_prefix>> \o requrl
                     ELSE requrl
        full == IF Truthy(params)
                THEN versioned \o <<"?">> \o urlencode(params[1])
                ELSE versioned
    IN <<self.algod_address>> \o full

\* What the try block of lines 69-70 raises for the error body e.
http_error_try(e) ==
    LET j == json_loads(e)
        m == getitem(j.value, "message")
    IN IF ~j.ok THEN Raised("JSONDecodeError", <<>>)
       ELSE IF m.kind # "return" THEN m
       ELSE Raised("AlgodHTTPError", text_of(m.value))

\* The exceptions the bare `except:` of line 71 catches: all of them.
BareExcept ==
    {"JSONDecodeError", "KeyError", "TypeError", "AlgodHTTPError", "URLError"}

\* Lines 67-72: the handler of an HTTPError with body e.
http_error_handler(e) ==
    LET raised == http_error_try(e)
    IN IF raised.kind \in BareExcept
       THEN Raised("AlgodHTTPError", e)
       ELSE raised

\* algod_response with the decode of line 73 guarded: a body that is not JSON
\* is returned as None.
algod_response_swallow(reply) ==
    IF reply.kind = "URLError" THEN Raised("URLError", <<>>)
    ELSE IF reply.kind = "HTTPError" THEN http_error_handler(reply.body)
    ELSE LET j == json_loads(reply.body)
         IN IF j.ok THEN Returned(j.value) ELSE Returned(JNull)

\* Lines 65-73: how the call ends, given what urlopen did.
algod_response(reply) ==
    IF reply.kind = "URLError" THEN Raised("URLError", <<>>)
    ELSE IF reply.kind = "HTTPError" THEN http_error_handler(reply.body)
    ELSE LET j == json_loads(reply.body)
         IN IF j.ok THEN Returned(j.value)
            ELSE Raised("JSONDecodeError", <<>>)

\* algod_request with one retry of a request the node answered with an
\* error status.
algod_request_retry(self, method, requrl, params, data, opt_header, reply) ==
    LET req == [method |-> method,
                url |-> url_of(self, requrl, params),
                headers |-> header_of(self, requrl, opt_header),
                data |-> data]
    IN [sent |-> IF reply.kind = "HTTPError" THEN <<req, req>> ELSE <<req>>,
        outcome |-> algod_response(reply),
        extended_header |-> extended_header_after(self, requrl, opt_header)]

\* Lines 30-73.
algod_request(self, method, requrl, params, data, opt_header, reply) ==
    LET req == [method |-> method,
                url |-> url_of(self, requrl, params),
                headers |-> header_of(self, requrl, opt_header),
                data |-> data]
    IN [sent |-> <<req>>,
        outcome |-> algod_response(reply),
        extended_header |-> extended_header_after(self, requrl, opt_header)]

----------------------------------------------------------------------------
(* The endpoint wrappers: each gives the arguments it calls algod_request  *)
(* with.                                                                   *)

Frame(method, requrl, params, data, opt_header) ==
    [method |-> method, requrl |-> requrl, params |-> params, data |-> data,
     opt_header |-> opt_header]

Param(key, val) == [key |-> key, val |-> val]

status == Frame("GET", <<"/status">>, None, None, None)

health == Frame("GET", <<"/health">>, None, None, None)

status_after_block(block_num) ==
    Frame("GET", <<"/status/wait-for-block-after/", str_int(block_num)>>,
          None, None, None)

\* pending_transactions_query with `max` put in only when max_txns is true.
pending_transactions_query_nonzero(max_txns) ==
    IF max_txns # 0 THEN <<Param("max", PyInt(max_txns))>> ELSE <<>>

\* Line 103.
pending_transactions_query(max_txns) == <<Param("max", PyInt(max_txns))>>

pending_transactions(max_txns) ==
    Frame("GET", <<"/transactions/pending">>,
          Some(pending_transactions_query(max_txns)), None, None)

versions == Frame("GET", <<"/versions">>, None, None, None)

ledger_supply == Frame("GET", <<"/ledger/supply">>, None, None, None)

\* Truth value of a parameter value.
PyTruthy(o) ==
    ~IsNone(o) /\ (IF o[1].t = "int" THEN o[1].n # 0 ELSE o[1].s # "")

\* transactions_by_address_query with `if first:` for `if first is not None:`
\* and so on: 0 and "" are left out.
transactions_by_address_query_truthy(first, last, limit, from_date, to_date) ==
    (IF PyTruthy(first) THEN <<Param("firstRound", first[1])>> ELSE <<>>)
    \o (IF PyTruthy(last) THEN <<Param("lastRound", last[1])>> ELSE <<>>)
    \o (IF PyTruthy(limit) THEN <<Param("max", limit[1])>> ELSE <<>>)
    \o (IF PyTruthy(to_date) THEN <<Param("toDate", to_date[1])>> ELSE <<>>)
    \o (IF PyTruthy(from_date) THEN <<Param("fromDate", from_date[1])>> ELSE <<>>)

\* Lines 136-146: the query dict, in the order the keys are inserted.
transactions_by_address_query(first, last, limit, from_date, to_date) ==
    (IF ~IsNone(first) THEN <<Param("firstRound", first[1])>> ELSE <<>>)
    \o (IF ~IsNone(last) THEN <<Param("lastRound", last[1])>> ELSE <<>>)
    \o (IF ~IsNone(limit) THEN <<Param("max", limit[1])>> ELSE <<>>)
    \o (IF ~IsNone(to_date) THEN <<Param("toDate", to_date[1])>> ELSE <<>>)
    \o (IF ~IsNone(from_date) THEN <<Param("fromDate", from_date[1])>> ELSE <<>>)

transactions_by_address(address, first, last, limit, from_date, to_date) ==
    Frame("GET", <<"/account/", address, "/transactions">>,
          Some(transactions_by_address_query(first, last, limit, from_date,
                                             to_date)),
          None, None)

account_info(address) == Frame("GET", <<"/account/", address>>, None, None, None)

transaction_info(address, transaction_id) ==
    Frame("GET", <<"/account/", address, "/transaction/", transaction_id>>,
          None, None, None)

pending_transaction_info(transaction_id) ==
    Frame("GET", <<"/transactions/pending/", transaction_id>>, None, None, None)

transaction_by_id(transaction_id) ==
    Frame("GET", <<"/transaction/", transaction_id>>, None, None, None)

suggested_fee == Frame("GET", <<"/transactions/fee">>, None, None, None)

suggested_params == Frame("GET", <<"/transactions/params">>, None, None, None)

send_raw_transaction(txn, request_header) ==
    Frame("POST", <<"/transactions">>, None, Some(b64decode(txn)),
          request_header)

\* send_raw_transaction_result without the ["txId"]: the whole response.
send_raw_transaction_result_whole(out) == out

\* Line 214: the ["txId"] applied to what algod_request returned.
send_raw_transaction_result(out) ==
    IF out.kind = "return" THEN getitem(out.value, "txId") ELSE out

send_transaction(txn, request_header) ==
    send_raw_transaction(msgpack_encode(txn), request_header)

block_info(round) ==
    Frame("GET", <<"/block/", str_int(round)>>, None, None, None)

----------------------------------------------------------------------------
(* The inputs of the model.                                                *)

Tokens == {"tok"}
Addresses == {"http://node:8080"}
HeaderNames == {algod_auth_header, "X-Custom"}
HeaderValues == {"a", "b"}
Dicts == UNION {[S -> HeaderValues] : S \in SUBSET HeaderNames}
OptDicts == {None} \cup {Some(d) : d \in Dicts}

Accounts == {"ADDR"}
TxIds == {"TXID"}
Rounds == 0..MaxRound
OptRounds == {None} \cup {Some(PyInt(n)) : n \in Rounds}
OptLimits == {None} \cup {Some(PyInt(n)) : n \in 0..MaxTxns}
OptDates == {None, Some(PyStr("")), Some(PyStr("2019-01-01 00"))}

Bytes == {0, 255}
ByteStrings == UNION {[1..n -> Bytes] : n \in 0..MaxBytes}
Base64Texts == {b64encode(b) : b \in ByteStrings}
Transactions == {[fields |-> b] : b \in ByteStrings}

MessageBody == <<T("{"), Q("message"), T(":"), Q("bad request"), T("}")>>
OopsBody == <<T("oops")>>
TxIdBody ==
    <<T("{"), Q("txId"), T(":"), Q("TX1"), T(","), Q("round"), T(":"), Q("7"),
      T("}")>>
NullBody == <<T("null")>>
EmptyObjectBody == <<T("{"), T("}")>>
QuotedBody == <<Q("oops")>>
TruncatedBody == <<T("{"), Q("message"), T(":")>>
Bodies ==
    {MessageBody, OopsBody, TxIdBody, NullBody, EmptyObjectBody, QuotedBody,
     TruncatedBody}

\* What the HTTP layer can do with a request: fail to connect, answer with a
\* non-2xx status, answer with a 2xx status.
Replies ==
    {[kind |-> "URLError", body |-> <<>>]}
    \cup {[kind |-> k, body |-> b] : k \in {"HTTPError", "ok"}, b \in Bodies}

\* The arguments of direct calls of algod_request.
RequestPaths ==
    {<<"/health">>, <<"/versions">>, <<"/status">>,
     <<api_version_path_prefix, "/status">>}
RequestParams == {None, Some(<<>>), Some(<<Param("max", PyInt(0))>>)}
RequestBodies == {<<"GET", None>>, <<"POST", Some(<<0>>)>>}

----------------------------------------------------------------------------
(* The state machine: one action per public method.                        *)

Self ==
    [algod_token |-> algod_token, algod_address |-> algod_address,
     extended_header |-> extended_header]

NoCall == [kind |-> "none", value |-> JNull, text |-> <<>>]

\* AlgodClient.__init__: the three attributes are the arguments.
Init ==
    /\ algod_token \in Tokens
    /\ algod_address \in Addresses
    /\ extended_header \in OptDicts
    /\ op = "none"
    /\ args = <<>>
    /\ frame = [method |-> "", requrl |-> <<>>, params |-> None,
                data |-> None, opt_header |-> None]
    /\ net = [kind |-> "none", body |-> <<>>]
    /\ sent = <<>>
    /\ outcome = NoCall

NoFrame == Frame("", <<>>, None, None, None)
NoReply == [kind |-> "none", body |-> <<>>]

\* The caller takes the outcome of the call; the call's locals are gone and
\* the client is ready for the next call.
Return ==
    /\ op # "none"
    /\ op' = "none"
    /\ args' = <<>>
    /\ frame' = NoFrame
    /\ net' = NoReply
    /\ sent' = <<>>
    /\ outcome' = NoCall
    /\ UNCHANGED <<algod_token, algod_address, extended_header>>

\* No call is in progress.
Idle == op = "none"

\* A public method `name` called with arguments `a`, which enters
\* algod_request with the arguments f; subscript tells whether the method
\* applies ["txId"] to what algod_request returns.
Call(name, a, f, subscript) ==
    \E reply \in Replies :
        LET r == algod_request(Self, f.method, f.requrl, f.params, f.data,
                               f.opt_header, reply)
        IN /\ op' = name
           /\ args' = a
           /\ frame' = f
           /\ net' = reply
           /\ sent' = r.sent
           /\ outcome' = IF subscript
                         THEN send_raw_transaction_result(r.outcome)
                         ELSE r.outcome
           /\ extended_header' = r.extended_header
           /\ UNCHANGED <<algod_token, algod_address>>

AlgodRequest ==
    /\ Idle
    /\ \E mb \in RequestBodies, requrl \in RequestPaths, params \in RequestParams,
          opt_header \in OptDicts :
        LET f == Frame(mb[1], requrl, params, mb[2], opt_header)
        IN Call("algod_request", f, f, FALSE)

Status == Idle /\ Call("status", <<>>, status, FALSE)

Health == Idle /\ Call("health", <<>>, health, FALSE)

StatusAfterBlock ==
    /\ Idle
    /\ \E block_num \in Rounds :
        Call("status_after_block", [block_num |-> block_num],
             status_after_block(block_num), FALSE)

PendingTransactions ==
    /\ Idle
    /\ \E max_txns \in 0..MaxTxns :
        Call("pending_transactions", [max_txns |-> max_txns],
             pending_transactions(max_txns), FALSE)

Versions == Idle /\ Call("versions", <<>>, versions, FALSE)

LedgerSupply == Idle /\ Call("ledger_supply", <<>>, ledger_supply, FALSE)

TransactionsByAddress ==
    /\ Idle
    /\ \E address \in Accounts, first \in OptRounds, last \in OptRounds,
          limit \in OptLimits, from_date \in OptDates, to_date \in OptDates :
        Call("transactions_by_address",
             [address |-> address, first |-> first, last |-> last,
              limit |-> limit, from_date |-> from_date, to_date |-> to_date],
             transactions_by_address(address, first, last, limit, from_date,
                                     to_date),
             FALSE)

AccountInfo ==
    /\ Idle
    /\ \E address \in Accounts :
        Call("account_info", [address |-> address], account_info(address),
             FALSE)

TransactionInfo ==
    /\ Idle
    /\ \E address \in Accounts, transaction_id \in TxIds :
        Call("transaction_info",
             [address |-> address, transaction_id |-> transaction_id],
             transaction_info(address, transaction_id), FALSE)

PendingTransactionInfo ==
    /\ Idle
    /\ \E transaction_id \in TxIds :
        Call("pending_transaction_info", [transaction_id |-> transaction_id],
             pending_transaction_info(transaction_id), FALSE)

TransactionById ==
    /\ Idle
    /\ \E transaction_id \in TxIds :
        Call("transaction_by_id", [transaction_id |-> transaction_id],
             transaction_by_id(transaction_id), FALSE)

SuggestedFee == Idle /\ Call("suggested_fee", <<>>, suggested_fee, FALSE)

SuggestedParams == Idle /\ Call("suggested_params", <<>>, suggested_params, FALSE)

SendRawTransaction ==
    /\ Idle
    /\ \E txn \in Base64Texts, request_header \in OptDicts :
        Call("send_raw_transaction",
             [txn |-> txn, request_header |-> request_header],
             send_raw_transaction(txn, request_header), TRUE)

SendTransaction ==
    /\ Idle
    /\ \E txn \in Transactions, request_header \in OptDicts :
        Call("send_transaction",
             [txn |-> txn, request_header |-> request_header],
             send_transaction(txn, request_header), TRUE)

BlockInfo ==
    /\ Idle
    /\ \E round \in Rounds :
        Call("block_info", [round |-> round], block_info(round), FALSE)

Next ==
    \/ AlgodRequest
    \/ Status
    \/ Health
    \/ StatusAfterBlock
    \/ PendingTransactions
    \/ Versions
    \/ LedgerSupply
    \/ TransactionsByAddress
    \/ AccountInfo
    \/ TransactionInfo
    \/ PendingTransactionInfo
    \/ TransactionById
    \/ SuggestedFee
    \/ SuggestedParams
    \/ SendRawTransaction
    \/ SendTransaction
    \/ BlockInfo
    \/ Return

Spec == Init /\ [][Next]_vars

----------------------------------------------------------------------------
(* Reading a request back: what the claims are stated on.                  *)

Called == op # "none"
Request == sent[1]
Range(q) == {q[i] : i \in DOMAIN q}

\* The place of the first "?" of a URL, one past its end when it has none.
QueryMark(url) ==
    IF "?" \in Range(url)
    THEN CHOOSE i \in DOMAIN url :
             url[i] = "?" /\ \A j \in 1..(i - 1) : url[j] # "?"
    ELSE Len(url) + 1

\* The part of the URL after the base address and before the query string.
EffectivePath(url) == SubSeq(url, 2, QueryMark(url) - 1)

\* The query string, and the key/value pairs it carries, in order.
QueryString(url) == SubSeq(url, QueryMark(url) + 1, Len(url))
QueryCount(url) == (Len(QueryString(url)) + 1) \div 4
QueryPairs(url) ==
    LET qs == QueryString(url)
    IN [i \in 1..QueryCount(url) |-> <<qs[4 * i - 3], qs[4 * i - 1]>>]
QueryWellFormed(url) ==
    LET qs == QueryString(url)
    IN /\ "?" \in Range(url) => Len(qs) % 4 = 3
       /\ \A i \in 1..QueryCount(url) : qs[4 * i - 2] = "="
       /\ \A i \in 1..(QueryCount(url) - 1) : qs[4 * i] = "&"

\* The dict an optional dict argument contributes to the headers.
Supplied(o) == IF Truthy(o) THEN o[1] ELSE <<>>

\* The text the claim C1 gives a node-API error for the error body e.
MessageOrRaw(e) ==
    LET j == json_loads(e)
    IN IF j.ok /\ j.value.kind = "obj" /\ "message" \in DOMAIN j.value.obj
       THEN <<T(j.value.obj["message"])>>
       ELSE e

----------------------------------------------------------------------------
(* The claims.                                                             *)

\* C1: on a non-2xx status the call fails with an AlgodHTTPError whose text
\* is the body's `message` field when the body is JSON with a `message`, and
\* the raw body text otherwise.
C1_ErrorTextIsMessageOrRaw ==
    (Called /\ net.kind = "HTTPError") =>
        /\ outcome.kind = "AlgodHTTPError"
        /\ outcome.text = MessageOrRaw(net.body)

\* C2 as stated: the outgoing headers carry the auth header with the
\* configured token when the path is not in the no-auth allow-list, and do not
\* carry the auth header name at all when it is.
C2_AuthHeaderAbsentOnNoAuth ==
    Called =>
        IF frame.requrl \notin no_auth
        THEN /\ algod_auth_header \in DOMAIN Request.headers
             /\ Request.headers[algod_auth_header] = algod_token
        ELSE algod_auth_header \notin DOMAIN Request.headers

\* C2 as amended: the auth header carries the configured token when the path
\* is not in the no-auth allow-list; when it is, the request gets no auth
\* header of its own, so the name is sent only if extended_header or
\* opt_header supplies it, with the caller's value (opt_header's first).
C2_AuthHeaderNotAddedOnNoAuth ==
    Called =>
        LET h == Request.headers
            e == Supplied(extended_header)
            o == Supplied(frame.opt_header)
        IN IF frame.requrl \notin no_auth
           THEN /\ algod_auth_header \in DOMAIN h
                /\ h[algod_auth_header] = algod_token
           ELSE /\ algod_auth_header \in DOMAIN h
                    <=> algod_auth_header \in (DOMAIN e) \cup (DOMAIN o)
                /\ algod_auth_header \in DOMAIN o
                    => h[algod_auth_header] = o[algod_auth_header]
                /\ algod_auth_header \in (DOMAIN e) \ (DOMAIN o)
                    => h[algod_auth_header] = e[algod_auth_header]

C2_Witness ==
    /\ Called
    /\ frame.requrl \in no_auth
    /\ algod_auth_header \in DOMAIN Supplied(frame.opt_header)
    /\ algod_auth_header \in DOMAIN Request.headers
    /\ Request.headers[algod_auth_header] # algod_token

C4_ExactlyOneRequest == Called => Len(sent) = 1

C4_Witness ==
    /\ op = "send_transaction"
    /\ outcome.kind = "AlgodHTTPError"
    /\ Len(sent) = 1

\* C5: no call changes the client's configuration: algod_token, algod_address
\* and the contents of extended_header stay what the constructor was given.
C5_ConfigUnchanged ==
    [][/\ algod_token' = algod_token
       /\ algod_address' = algod_address
       /\ extended_header' = extended_header]_vars

C5_Witness ==
    /\ Called
    /\ Truthy(extended_header)
    /\ DOMAIN extended_header[1] = {"X-Custom"}
    /\ "X-Custom" \in DOMAIN Supplied(frame.opt_header)
    /\ Request.headers["X-Custom"] # extended_header[1]["X-Custom"]
    /\ algod_auth_header \in DOMAIN Request.headers

\* C6: the query string of transactions_by_address carries exactly the
\* parameters that were supplied (not None) among firstRound, lastRound, max,
\* fromDate and toDate, each once and with the supplied value; 0 and "" count
\* as supplied; with none supplied the URL has no "?".
C6_Expected ==
    {<<"firstRound", str(args.first[1])>> : x \in {1} \cap DOMAIN args.first}
    \cup {<<"lastRound", str(args.last[1])>> : x \in {1} \cap DOMAIN args.last}
    \cup {<<"max", str(args.limit[1])>> : x \in {1} \cap DOMAIN args.limit}
    \cup {<<"fromDate", quote_plus(args.from_date[1].s)>> :
              x \in {1} \cap DOMAIN args.from_date}
    \cup {<<"toDate", quote_plus(args.to_date[1].s)>> :
              x \in {1} \cap DOMAIN args.to_date}

C6_QueryExactlySupplied ==
    op = "transactions_by_address" =>
        /\ QueryWellFormed(Request.url)
        /\ Range(QueryPairs(Request.url)) = C6_Expected
        /\ QueryCount(Request.url) = Cardinality(C6_Expected)
        /\ C6_Expected = {} <=> "?" \notin Range(Request.url)

C6_Witness ==
    /\ op = "transactions_by_address"
    /\ args.first = Some(PyInt(0))
    /\ args.last = None
    /\ args.limit = None
    /\ args.from_date = None
    /\ args.to_date = Some(PyStr(""))
    /\ QueryString(Request.url) =
           <<"firstRound", "=", "0", "&", "toDate", "=", "">>

\* C7: pending_transactions always sends max=<max_txns>, for 0 (the default)
\* as for any other value.
C7_PendingAlwaysSendsMax ==
    op = "pending_transactions" =>
        /\ QueryWellFormed(Request.url)
        /\ "?" \in Range(Request.url)
        /\ QueryPairs(Request.url) = << <<"max", str_int(args.max_txns)>> >>

C7_Witness ==
    /\ op = "pending_transactions"
    /\ args.max_txns = 0
    /\ Request.url =
           <<algod_address, "/v1", "/transactions/pending", "?", "max", "=",
             "0">>

\* C8: send_raw_transaction POSTs the base64-decoding of its input to
\* /transactions ("AA==" gives the one byte 0) and on a 2xx response returns
\* the value of `txId`, not the whole object; send_transaction(txn) makes the
\* request and gives the result of send_raw_transaction on txn's encoding.
C8_SendRawTransaction ==
    /\ op \in {"send_raw_transaction", "send_transaction"} =>
           /\ Request.method = "POST"
           /\ frame.requrl = <<"/transactions">>
           /\ EffectivePath(Request.url) =
                  <<api_version_path_prefix, "/transactions">>
           /\ ~IsNone(Request.data)
           /\ (net.kind = "ok" /\ json_loads(net.body).ok
                   /\ json_loads(net.body).value.kind = "obj"
                   /\ "txId" \in DOMAIN json_loads(net.body).value.obj)
               => outcome =
                      Returned(JStr(json_loads(net.body).value.obj["txId"]))
           /\ outcome.kind = "return" => outcome.value.kind = "str"
    /\ op = "send_raw_transaction" =>
           /\ b64encode(Request.data[1]) = args.txn
           /\ args.txn = <<"A", "A", "=", "=">> => Request.data = Some(<<0>>)
    /\ op = "send_transaction" =>
           LET f == send_raw_transaction(msgpack_encode(args.txn),
                                         args.request_header)
               r == algod_request(Self, f.method, f.requrl, f.params, f.data,
                                  f.opt_header, net)
           IN /\ Request.data = Some(canonical_bytes(args.txn))
              /\ sent = r.sent
              /\ outcome = send_raw_transaction_result(r.outcome)

C8_Witness ==
    /\ op = "send_raw_transaction"
    /\ args.txn = <<"A", "A", "=", "=">>
    /\ Request.method = "POST"
    /\ Request.data = Some(<<0>>)
    /\ net = [kind |-> "ok", body |-> TxIdBody]
    /\ outcome = Returned(JStr("TX1"))

\* C9: a transport failure ends the call with a transport error, a non-2xx
\* status with a node-API error, a 2xx body that is not JSON with a decode
\* error that is neither of the two; no failing call returns a value.
C9_FailuresDistinct ==
    Called =>
        /\ net.kind = "URLError" => outcome.kind = "URLError"
        /\ net.kind = "HTTPError" => outcome.kind = "AlgodHTTPError"
        /\ (net.kind = "ok" /\ ~json_loads(net.body).ok)
               => outcome.kind = "JSONDecodeError"
        /\ outcome.kind = "return"
               => net.kind = "ok" /\ json_loads(net.body).ok

C9_Witness ==
    /\ Called
    /\ net = [kind |-> "ok", body |-> OopsBody]
    /\ outcome.kind = "JSONDecodeError"

\* C10: the headers are layered extended_header, then opt_header over it,
\* then the auth header: a name in both maps is sent with the per-call value,
\* on an authenticated path the auth name is sent with the configured token
\* whoever else supplied it, and every other supplied name is sent with its
\* value; nothing else is sent.
C10_HeaderLayering ==
    Called =>
        LET h == Request.headers
            e == Supplied(extended_header)
            o == Supplied(frame.opt_header)
            authed == frame.requrl \notin no_auth
        IN /\ DOMAIN h =
                  (DOMAIN e) \cup (DOMAIN o)
                  \cup (IF authed THEN {algod_auth_header} ELSE {})
           /\ \A k \in DOMAIN h :
                  h[k] = IF authed /\ k = algod_auth_header THEN algod_token
                         ELSE IF k \in DOMAIN o THEN o[k]
                         ELSE e[k]

C10_Witness ==
    /\ Called
    /\ frame.requrl \notin no_auth
    /\ Supplied(extended_header) =
           [k \in {"X-Custom", algod_auth_header} |-> "a"]
    /\ Supplied(frame.opt_header) = [k \in {"X-Custom"} |-> "b"]
    /\ Request.headers =
           [k \in {"X-Custom", algod_auth_header} |->
               IF k = "X-Custom" THEN "b" ELSE algod_token]

====
